---- MODULE Spec2Model ----
(***************************************************************************)
(* Model of src/src/App.jsx: the playlist text parser, the PKCE callback,  *)
(* the session state held by the App component and the two creation        *)
(* pipelines (handleCreate, handleDemoCreate).                             *)
(*                                                                         *)
(* A text is a sequence of characters; a character is a one-token string.  *)
(* "NL" is the line feed, "EM" the em dash and "EN" the en dash.            *)
(* A nullable value (null | v) is the empty sequence or <<v>>.             *)
(* A progress value is a fraction <<numerator, denominator>>.              *)
(***************************************************************************)
EXTENDS Integers, Sequences, FiniteSets, TLC

\* ------------------------------------------------------------------ bounds
MaxRuns == 2
MaxAuth == 2
MaxCopyTimers == 1
MaxProgressSongs == 15

\* ------------------------------------------------------- strings (JS String)
Null == <<>>

IsSpace(c) == c \in {" ", "NL", "TAB"}

IsDigit(c) == c \in {"0", "1", "2", "3", "4", "5", "6", "7", "8", "9"}

RECURSIVE TrimStart(_)
TrimStart(s) ==
  IF s # <<>> /\ IsSpace(Head(s)) THEN TrimStart(Tail(s)) ELSE s

RECURSIVE TrimEnd(_)
TrimEnd(s) ==
  IF s # <<>> /\ IsSpace(s[Len(s)]) THEN TrimEnd(SubSeq(s, 1, Len(s) - 1)) ELSE s

\* String.prototype.trim
Trim(s) == TrimEnd(TrimStart(s))

\* s.substring(from) with a 0-based index
SubstringFrom(s, from) == SubSeq(s, from + 1, Len(s))

\* s.substring(0, to) with a 0-based, exclusive end
SubstringTo(s, to) == SubSeq(s, 1, to)

\* s.indexOf(sep): the 0-based index of the first occurrence, or -1
IndexOf(s, sep) ==
  LET hits == {k \in 0..(Len(s) - Len(sep)) : SubSeq(s, k + 1, k + Len(sep)) = sep}
  IN  IF hits = {} THEN -1 ELSE CHOOSE k \in hits : \A h \in hits : k <= h

\* s.split("\n")
RECURSIVE SplitLines(_)
SplitLines(s) ==
  LET k == IndexOf(s, <<"NL">>)
  IN  IF k = -1 THEN <<s>>
      ELSE <<SubstringTo(s, k)>> \o SplitLines(SubstringFrom(s, k + 1))

\* ------------------------------------------------------- parsePlaylistText
separators == << <<" ", "/", " ">>, <<" ", "-", " ">>, <<" ", "EM", " ">>, <<" ", "EN", " ">> >>

\* the number of leading digits of a line
RECURSIVE DigitRun(_)
DigitRun(s) == IF s # <<>> /\ IsDigit(Head(s)) THEN 1 + DigitRun(Tail(s)) ELSE 0

\* line.match(/^\d+[\.\)]\s*(.+)/): group 1 as <<content>>, or Null when the
\* line does not match (no digits, no marker character, or nothing after it)
NumberedMatch(line) ==
  LET d    == DigitRun(line)
      rest == IF d > 0 /\ Len(line) > d /\ line[d + 1] \in {".", ")"}
              THEN TrimStart(SubstringFrom(line, d + 1)) ELSE <<>>
  IN  IF rest # <<>> THEN <<rest>> ELSE Null

\* FirstSeparator, were the separator that occurs leftmost in the line chosen
FirstSeparator_Leftmost(content) ==
  LET ok == {k \in 1..Len(separators) : IndexOf(content, separators[k]) > 0}
  IN  IF ok = {} THEN 0
      ELSE CHOOSE k \in ok : \A h \in ok :
             IndexOf(content, separators[k]) <= IndexOf(content, separators[h])

\* the 1-based position in separators of the first separator with indexOf > 0
FirstSeparator(content) ==
  LET ok == {k \in 1..Len(separators) : IndexOf(content, separators[k]) > 0}
  IN  IF ok = {} THEN 0 ELSE CHOOSE k \in ok : \A h \in ok : k <= h

\* one iteration of the song loop: <<song>> or <<>> when the title is empty
ParseLine(rawLine) ==
  LET line     == Trim(rawLine)
      numbered == NumberedMatch(line)
      content  == IF numbered # Null THEN numbered[1] ELSE line
      k        == FirstSeparator(content)
      idx      == IF k = 0 THEN -1 ELSE IndexOf(content, separators[k])
      songTitle == IF k = 0 THEN content ELSE Trim(SubstringTo(content, idx))
      artist   == IF k = 0 THEN <<>>
                  ELSE Trim(SubstringFrom(content, idx + Len(separators[k])))
  IN  IF songTitle # <<>> THEN << [title |-> songTitle, artist |-> artist] >> ELSE <<>>

RECURSIVE ParseLines(_)
ParseLines(lines) ==
  IF lines = <<>> THEN <<>> ELSE ParseLine(Head(lines)) \o ParseLines(Tail(lines))

\* parsePlaylistText, were the title line taken as it is (lines[0], no trim)
parsePlaylistText_RawTitle(text) ==
  LET lines == SelectSeq(SplitLines(Trim(text)), LAMBDA l : Trim(l) # <<>>)
      parsed == ParseLines(Tail(lines))
  IN  IF Len(lines) < 2 THEN Null
      ELSE IF Len(parsed) > 0 THEN << [title |-> lines[1], songs |-> parsed] >>
      ELSE Null

\* parsePlaylistText(text): <<[title, songs]>> or Null
parsePlaylistText(text) ==
  LET lines == SelectSeq(SplitLines(Trim(text)), LAMBDA l : Trim(l) # <<>>)
      parsed == ParseLines(Tail(lines))
  IN  IF Len(lines) < 2 THEN Null
      ELSE IF Len(parsed) > 0 THEN << [title |-> Trim(lines[1]), songs |-> parsed] >>
      ELSE Null

\* `${n}` for a natural number: its decimal digits
RECURSIVE NumberToString(_)
NumberToString(n) ==
  LET digit == <<"0", "1", "2", "3", "4", "5", "6", "7", "8", "9">>[(n % 10) + 1]
  IN  IF n < 10 THEN <<digit>> ELSE NumberToString(n \div 10) \o <<digit>>

\* songs.map((s, i) => `${i + 1}. ${s.title} / ${s.artist}`).join("\n"), from
\* the 1-based position k on
RECURSIVE CopyListLines(_, _)
CopyListLines(songList, k) ==
  IF k > Len(songList) THEN <<>>
  ELSE NumberToString(k) \o <<".", " ">> \o songList[k].title \o <<" ", "/", " ">>
         \o songList[k].artist
         \o (IF k < Len(songList) THEN <<"NL">> ELSE <<>>)
         \o CopyListLines(songList, k + 1)

\* the text handleCopyList writes to the clipboard
CopyListText(title, songList) == title \o <<"NL">> \o CopyListLines(songList, 1)

\* ------------------------------------------------------------ model inputs
\* the texts a user types or pastes into the text area
Texts ==
  { <<>>,
    <<"T">>,
    <<"T", "NL", "1", ".", " ", "A", " ", "/", " ", "B">>,
    <<"T", "NL", "A", " ", "-", " ", "B", "NL", "2", ")", "B">> }

\* the values a user types into a title or artist field
EditValues == { <<"C">> }

RunIds == 1..MaxRuns

\* ------------------------------------------------------------------- state
VARIABLES
  phase, rawText, playlistTitle, songs, editingIndex, pasteSuccess, copied,
  token, user, authLoading,
  progress, currentTrack, results, createdPlaylistUrl, error,
  timer,       \* the pending 900 ms auto-advance: Null or <<rawText of its handleParse>>
  copyTimers,  \* the number of pending 2000 ms setCopied(false) timers
  runs,        \* the invocations of handleCreate / handleDemoCreate, by slot
  authPc,      \* the PKCE callback's promise chain: "none", "exchange" or "me"
  authReq,     \* the token-exchange request in flight: Null or <<[code, verifier]>>
  verifier,    \* sessionStorage "code_verifier": Null or <<v>>
  authCount,   \* the number of startAuth calls so far (names the verifiers)
  urlCode,     \* the code parameter of the page's URL: Null or <<code>>
  exchanged,   \* history: the verifiers an access token was obtained with
  caught       \* the error the callback's catch received on this page, or ""

uiVars   == <<phase, rawText, playlistTitle, songs, editingIndex, pasteSuccess, copied>>
credVars == <<token, user, authLoading>>
pipeVars == <<progress, currentTrack, results, createdPlaylistUrl, error>>
authVars == <<authPc, authReq, verifier, authCount, urlCode, exchanged, caught>>
vars == <<uiVars, credVars, pipeVars, timer, copyTimers, runs, authVars>>

\* window.sessionStorage, had the access token been kept there as well
sessionStorage_WithToken ==
  (IF verifier = Null THEN {}
   ELSE { [key |-> "code_verifier", value |-> <<"verifier", verifier[1]>>] })
    \cup (IF token = Null THEN {}
          ELSE { [key |-> "access_token", value |-> <<"token", token[1]>>] })

\* the items of window.sessionStorage: the code writes (startAuth) and removes
\* (exchangeCodeForToken) the one key code_verifier, and uses no other store
sessionStorage ==
  IF verifier = Null THEN {}
  ELSE { [key |-> "code_verifier", value |-> <<"verifier", verifier[1]>>] }

\* ------------------------------------------------------------ pipeline data
\* a slot that holds no invocation
IdleRun ==
  [ kind |-> "none", pc |-> "idle", i |-> 0, songs |-> <<>>, token |-> Null,
    user |-> Null, playlistTitle |-> <<>>, searchResults |-> <<>>,
    trackUris |-> <<>>, playlist |-> Null,
    settled |-> <<>> ]  \* how each searchTrack call of the invocation settled

InFlight == {r \in RunIds : runs[r].pc # "idle"}

FreeSlot == CHOOSE r \in RunIds : runs[r].pc = "idle" /\ \A q \in RunIds : runs[q].pc = "idle" => r <= q

\* `${song.title} — ${song.artist}`
TrackLabel(song) == song.title \o <<" ", "EM", " ">> \o song.artist

\* ((i + 0.5) / (n + 1)) * 100, i 0-based
SearchProgress(i, n) == <<(2 * i + 1) * 50, n + 1>>

\* ((i + 1) / (n + 1)) * 100, i 0-based
DemoProgress(i, n) == <<(i + 1) * 100, n + 1>>

Percent(p) == <<p, 1>>

\* a < b on progress values
Less(a, b) == a[1] * b[2] < b[1] * a[2]

\* the track the catalog holds for a query: its URI names the query
CatalogTrack(song) == [uri |-> <<"spotify:track:">> \o song.title \o <<"/">> \o song.artist]

\* how a searchTrack call settles: a first item, no item, or a rejection
SearchOutcomes == {"hit", "miss", "throw"}

\* searchTrack's value for an outcome that is not a rejection: the track or null
searchTrack(song, outcome) ==
  IF outcome = "hit" THEN <<CatalogTrack(song)>> ELSE Null

\* what handleCreate pushes for one search
SearchResult(song, outcome) ==
  IF outcome = "throw"
  THEN [song |-> song, spotifyTrack |-> Null, found |-> FALSE]
  ELSE [song |-> song, spotifyTrack |-> searchTrack(song, outcome),
        found |-> searchTrack(song, outcome) # Null]

\* DemoResult, were a demo song recorded as not found
DemoResult_NotFound(song) ==
  [song |-> song, spotifyTrack |-> Null, found |-> FALSE]

\* what handleDemoCreate pushes for one song
DemoResult(song) ==
  [ song |-> song,
    spotifyTrack |-> << [ name |-> song.title, artists |-> <<song.artist>>,
                          url |-> <<"search/">> \o song.title \o <<" ">> \o song.artist ] >>,
    found |-> TRUE ]

\* searchResults.filter((r) => r.found).map((r) => r.spotifyTrack.uri)
RECURSIVE FoundUris(_)
FoundUris(rs) ==
  IF rs = <<>> THEN <<>>
  ELSE (IF Head(rs).found THEN <<Head(rs).spotifyTrack[1].uri>> ELSE <<>>) \o FoundUris(Tail(rs))

NoTracksMessage == "no tracks found"
ApiErrorMessage == "error: Spotify API error"
CreatingMessage == <<"creating playlist...">>
AddingMessage == <<"adding tracks...">>
DemoCreatingMessage == <<"creating playlist (demo)...">>
PlaylistUrl == "https://open.spotify.com/playlist/p"

\* ------------------------------------------------------------- page load
\* the messages of the errors the PKCE callback can catch
NoVerifierMessage == "No code verifier found"
ExchangeFailedMessage == "Token exchange failed"
MeFailedMessage == "Spotify API error"

\* exchangeCodeForToken, did it not check that a verifier is stored: the request
\* goes out with the missing item's value (0 stands for it)
exchangeCodeForToken_NoVerifierCheck(code) ==
  /\ authLoading' = TRUE /\ authPc' = "exchange" /\ caught' = ""
  /\ authReq' = << [code |-> code[1],
                    verifier |-> IF verifier' = Null THEN 0 ELSE verifier'[1]] >>

\* exchangeCodeForToken up to its fetch, on the page being mounted: without a
\* stored verifier it throws before any request and the callback's catch runs;
\* otherwise the token request goes out with the code and the stored verifier
exchangeCodeForToken(code) ==
  IF verifier' = Null
  THEN /\ authLoading' = FALSE /\ authPc' = "none" /\ authReq' = Null
       /\ caught' = NoVerifierMessage
  ELSE /\ authLoading' = TRUE /\ authPc' = "exchange" /\ caught' = ""
       /\ authReq' = << [code |-> code[1], verifier |-> verifier'[1]] >>

\* CallbackEffect, did it leave the URL as it is
CallbackEffect_KeepsCode(code) ==
  IF code = Null
  THEN /\ authLoading' = FALSE /\ authPc' = "none" /\ authReq' = Null
       /\ urlCode' = Null /\ caught' = ""
  ELSE /\ urlCode' = code
       /\ exchangeCodeForToken(code)

\* the PKCE callback effect, for the code of the URL the page was loaded with:
\* replaceState takes the query string off the URL, then the exchange starts
CallbackEffect(code) ==
  IF code = Null
  THEN /\ authLoading' = FALSE /\ authPc' = "none" /\ authReq' = Null
       /\ urlCode' = Null /\ caught' = ""
  ELSE /\ urlCode' = Null
       /\ exchangeCodeForToken(code)

\* the component state of a freshly mounted App (the useState initial values),
\* followed by the PKCE callback effect for the code in the query string
Mount(code) ==
  /\ phase' = "paste" /\ rawText' = <<>> /\ playlistTitle' = <<>> /\ songs' = <<>>
  /\ editingIndex' = Null /\ pasteSuccess' = FALSE /\ copied' = FALSE
  /\ token' = Null /\ user' = Null
  /\ progress' = Percent(0) /\ currentTrack' = <<>> /\ results' = <<>>
  /\ createdPlaylistUrl' = "" /\ error' = ""
  /\ timer' = Null /\ copyTimers' = 0
  /\ runs' = [r \in RunIds |-> IdleRun]
  /\ CallbackEffect(code)

Init ==
  /\ phase = "paste" /\ rawText = <<>> /\ playlistTitle = <<>> /\ songs = <<>>
  /\ editingIndex = Null /\ pasteSuccess = FALSE /\ copied = FALSE
  /\ token = Null /\ user = Null /\ authLoading = FALSE
  /\ progress = Percent(0) /\ currentTrack = <<>> /\ results = <<>>
  /\ createdPlaylistUrl = "" /\ error = ""
  /\ timer = Null /\ copyTimers = 0
  /\ runs = [r \in RunIds |-> IdleRun]
  /\ authPc = "none" /\ authReq = Null /\ verifier = Null /\ authCount = 0
  /\ urlCode = Null /\ exchanged = {} /\ caught = ""


\* ------------------------------------------------------------- paste phase
\* the body of handleParse, for the rawText its closure holds
handleParse(text) ==
  LET parsed == parsePlaylistText(text)
  IN  IF parsed # Null
      THEN /\ playlistTitle' = parsed[1].title
           /\ songs' = parsed[1].songs
           /\ phase' = "preview"
      ELSE UNCHANGED <<playlistTitle, songs, phase>>

\* the pasteSuccess effect's value for a raw text
PasteSuccess(text) ==
  IF Trim(text) = <<>> THEN FALSE
  ELSE LET parsed == parsePlaylistText(text)
       IN  parsed # Null /\ Len(parsed[1].songs) > 0

\* SetRawText, were the effect's cleanup (clearTimeout) missing: a timer armed
\* for the earlier text stays armed
SetRawText_KeepsTimer(t) ==
  /\ phase = "paste"
  /\ t # rawText
  /\ rawText' = t
  /\ pasteSuccess' = PasteSuccess(t)
  /\ timer' = IF timer # Null THEN timer ELSE IF pasteSuccess' THEN <<t>> ELSE Null
  /\ UNCHANGED <<phase, playlistTitle, songs, editingIndex, copied>>
  /\ UNCHANGED <<credVars, pipeVars, copyTimers, runs, authVars>>

\* the text area's onChange / the sample button, with the two effects that follow
\* the render: pasteSuccess is recomputed, the old timer is cleared and a new one
\* is armed when pasteSuccess holds
SetRawText(t) ==
  /\ phase = "paste"
  /\ t # rawText
  /\ rawText' = t
  /\ pasteSuccess' = PasteSuccess(t)
  /\ timer' = IF pasteSuccess' THEN <<t>> ELSE Null
  /\ UNCHANGED <<phase, playlistTitle, songs, editingIndex, copied>>
  /\ UNCHANGED <<credVars, pipeVars, copyTimers, runs, authVars>>

\* the manual "read" button, shown while rawText.trim() && !pasteSuccess
ManualParse ==
  /\ phase = "paste"
  /\ Trim(rawText) # <<>> /\ ~pasteSuccess
  /\ handleParse(rawText)
  /\ UNCHANGED <<rawText, editingIndex, pasteSuccess, copied>>
  /\ UNCHANGED <<credVars, pipeVars, timer, copyTimers, runs, authVars>>

\* the 900 ms timer of the auto-advance effect fires
TimerFired ==
  /\ timer # Null
  /\ handleParse(timer[1])
  /\ timer' = Null
  /\ UNCHANGED <<rawText, editingIndex, pasteSuccess, copied>>
  /\ UNCHANGED <<credVars, pipeVars, copyTimers, runs, authVars>>

\* ----------------------------------------------------------- preview phase
\* a row's click / edit button, or the "done" button of the row being edited
SetEditingIndex(e) ==
  /\ phase = "preview"
  /\ \/ e = Null /\ editingIndex # Null /\ editingIndex[1] <= Len(songs)
     \/ e # Null /\ e[1] \in 1..Len(songs) /\ editingIndex # e
  /\ editingIndex' = e
  /\ UNCHANGED <<phase, rawText, playlistTitle, songs, pasteSuccess, copied>>
  /\ UNCHANGED <<credVars, pipeVars, timer, copyTimers, runs, authVars>>

handleSongEdit(i, field, value) ==
  /\ phase = "preview"
  /\ editingIndex = <<i>> /\ i \in 1..Len(songs)
  /\ songs' = [songs EXCEPT ![i] = [songs[i] EXCEPT ![field] = value]]
  /\ songs' # songs
  /\ UNCHANGED <<phase, rawText, playlistTitle, editingIndex, pasteSuccess, copied>>
  /\ UNCHANGED <<credVars, pipeVars, timer, copyTimers, runs, authVars>>

\* removeSong, were the song rows on screen in every phase
removeSong_AnyPhase(i) ==
  /\ i \in 1..Len(songs) /\ editingIndex # <<i>>
  /\ songs' = SubSeq(songs, 1, i - 1) \o SubSeq(songs, i + 1, Len(songs))
  /\ UNCHANGED <<phase, rawText, playlistTitle, editingIndex, pasteSuccess, copied>>
  /\ UNCHANGED <<credVars, pipeVars, timer, copyTimers, runs, authVars>>

removeSong(i) ==
  /\ phase = "preview"
  /\ i \in 1..Len(songs) /\ editingIndex # <<i>>
  /\ songs' = SubSeq(songs, 1, i - 1) \o SubSeq(songs, i + 1, Len(songs))
  /\ UNCHANGED <<phase, rawText, playlistTitle, editingIndex, pasteSuccess, copied>>
  /\ UNCHANGED <<credVars, pipeVars, timer, copyTimers, runs, authVars>>

\* handleReset, were its buttons on screen in every phase
handleReset_AnyPhase ==
  /\ phase' = "paste" /\ rawText' = <<>> /\ playlistTitle' = <<>> /\ songs' = <<>>
  /\ pasteSuccess' = FALSE /\ editingIndex' = Null /\ progress' = Percent(0)
  /\ currentTrack' = <<>> /\ results' = <<>> /\ createdPlaylistUrl' = "" /\ error' = ""
  /\ copied' = FALSE
  /\ timer' = Null
  /\ UNCHANGED <<credVars, copyTimers, runs, authVars>>

\* handleReset, did it log the user out as well
handleReset_LogsOut ==
  /\ phase \in {"preview", "done"}
  /\ phase' = "paste" /\ rawText' = <<>> /\ playlistTitle' = <<>> /\ songs' = <<>>
  /\ pasteSuccess' = FALSE /\ editingIndex' = Null /\ progress' = Percent(0)
  /\ currentTrack' = <<>> /\ results' = <<>> /\ createdPlaylistUrl' = "" /\ error' = ""
  /\ copied' = FALSE
  /\ timer' = Null
  /\ token' = Null /\ user' = Null
  /\ UNCHANGED <<authLoading, copyTimers, runs, authVars>>

\* handleReset, were setCreatedPlaylistUrl("") missing
handleReset_KeepsUrl ==
  /\ phase \in {"preview", "done"}
  /\ phase' = "paste" /\ rawText' = <<>> /\ playlistTitle' = <<>> /\ songs' = <<>>
  /\ pasteSuccess' = FALSE /\ editingIndex' = Null /\ progress' = Percent(0)
  /\ currentTrack' = <<>> /\ results' = <<>> /\ error' = ""
  /\ copied' = FALSE
  /\ timer' = Null
  /\ UNCHANGED <<createdPlaylistUrl, credVars, copyTimers, runs, authVars>>

\* "start over" in preview, "another list" in done; clearing rawText re-runs the
\* two effects, which leaves pasteSuccess false and no timer armed
handleReset ==
  /\ phase \in {"preview", "done"}
  /\ phase' = "paste" /\ rawText' = <<>> /\ playlistTitle' = <<>> /\ songs' = <<>>
  /\ pasteSuccess' = FALSE /\ editingIndex' = Null /\ progress' = Percent(0)
  /\ currentTrack' = <<>> /\ results' = <<>> /\ createdPlaylistUrl' = "" /\ error' = ""
  /\ copied' = FALSE
  /\ timer' = Null
  /\ UNCHANGED <<credVars, copyTimers, runs, authVars>>

\* -------------------------------------------------------------- done phase
handleCopyList ==
  /\ phase = "done"
  /\ copyTimers < MaxCopyTimers
  /\ copied' = TRUE
  /\ copyTimers' = copyTimers + 1
  /\ UNCHANGED <<phase, rawText, playlistTitle, songs, editingIndex, pasteSuccess>>
  /\ UNCHANGED <<credVars, pipeVars, timer, runs, authVars>>

\* one of the 2000 ms timers of handleCopyList fires
CopyTimerFired ==
  /\ copyTimers > 0
  /\ copied' = FALSE
  /\ copyTimers' = copyTimers - 1
  /\ UNCHANGED <<phase, rawText, playlistTitle, songs, editingIndex, pasteSuccess>>
  /\ UNCHANGED <<credVars, pipeVars, timer, runs, authVars>>

\* ------------------------------------------------------------ authorization
\* a login button is on screen: the top bar's, the preview card's or the done one
LoginVisible ==
  \/ ~authLoading /\ ~(token # Null /\ user # Null)
  \/ phase = "preview" /\ token = Null
  \/ phase = "done" /\ createdPlaylistUrl = ""

\* handleLogin: startAuth stores a fresh verifier and leaves the page; the
\* provider sends the browser back with the code issued for that verifier's
\* challenge (granted) or without one, and the App mounts afresh
handleLogin(granted) ==
  /\ LoginVisible
  /\ authCount < MaxAuth
  /\ authCount' = authCount + 1
  /\ verifier' = <<authCount + 1>>
  /\ UNCHANGED exchanged
  /\ Mount(IF granted THEN <<authCount + 1>> ELSE Null)

\* the user opens the page by a URL (a link, the history, the address bar), with
\* no code, with a code the provider issued, or with one it never issued (0)
PageLoad(code) ==
  /\ code \in {Null} \cup {<<c>> : c \in 0..authCount}
  /\ UNCHANGED <<verifier, authCount, exchanged>>
  /\ Mount(code)

\* the user reloads the page: it loads with the URL it shows now
Reload ==
  /\ UNCHANGED <<verifier, authCount, exchanged>>
  /\ Mount(urlCode)

\* the top bar shows the user's name and the logout button
LogoutVisible == ~authLoading /\ token # Null /\ user # Null

\* handleLogout, were setUser(null) missing
handleLogout_KeepsUser ==
  /\ LogoutVisible
  /\ token' = Null
  /\ UNCHANGED <<user, authLoading, uiVars, pipeVars, timer, copyTimers, runs, authVars>>

handleLogout ==
  /\ LogoutVisible
  /\ token' = Null /\ user' = Null
  /\ UNCHANGED <<authLoading, uiVars, pipeVars, timer, copyTimers, runs, authVars>>

\* ExchangeSettled, were sessionStorage.removeItem("code_verifier") missing
ExchangeSettled_KeepsVerifier(ok) ==
  /\ authPc = "exchange"
  /\ ok => authReq[1].verifier = authReq[1].code
  /\ authReq' = Null
  /\ IF ok
     THEN /\ exchanged' = exchanged \cup {authReq[1].verifier}
          /\ token' = <<authReq[1].code>>
          /\ authPc' = "me"
          /\ UNCHANGED <<user, authLoading, caught, verifier>>
     ELSE /\ token' = Null /\ authLoading' = FALSE
          /\ caught' = ExchangeFailedMessage
          /\ authPc' = "none"
          /\ UNCHANGED <<user, verifier, exchanged>>
  /\ UNCHANGED <<authCount, urlCode, uiVars, pipeVars, timer, copyTimers, runs>>

\* ExchangeSettled, had the callback no catch: a failed exchange leaves the
\* session loading
ExchangeSettled_NoCatch(ok) ==
  /\ authPc = "exchange"
  /\ ok => authReq[1].verifier = authReq[1].code
  /\ authReq' = Null
  /\ IF ok
     THEN /\ verifier' = Null
          /\ exchanged' = exchanged \cup {authReq[1].verifier}
          /\ token' = <<authReq[1].code>>
          /\ authPc' = "me"
          /\ UNCHANGED <<user, authLoading, caught>>
     ELSE /\ authPc' = "none"
          /\ UNCHANGED <<token, authLoading, user, verifier, exchanged, caught>>
  /\ UNCHANGED <<authCount, urlCode, uiVars, pipeVars, timer, copyTimers, runs>>

\* the token endpoint answers; it accepts a code only with the verifier whose
\* challenge the code was issued for
ExchangeSettled(ok) ==
  /\ authPc = "exchange"
  /\ ok => authReq[1].verifier = authReq[1].code
  /\ authReq' = Null
  /\ IF ok
     THEN /\ verifier' = Null
          /\ exchanged' = exchanged \cup {authReq[1].verifier}
          /\ token' = <<authReq[1].code>>
          /\ authPc' = "me"
          /\ UNCHANGED <<user, authLoading, caught>>
     ELSE /\ token' = Null /\ authLoading' = FALSE
          /\ caught' = ExchangeFailedMessage
          /\ authPc' = "none"
          /\ UNCHANGED <<user, verifier, exchanged>>
  /\ UNCHANGED <<authCount, urlCode, uiVars, pipeVars, timer, copyTimers, runs>>

\* MeSettled, did the catch not call setToken(null)
MeSettled_KeepsToken(ok) ==
  /\ authPc = "me"
  /\ authPc' = "none"
  /\ authLoading' = FALSE
  /\ IF ok THEN user' = <<"me">> /\ UNCHANGED <<token, caught>>
           ELSE caught' = MeFailedMessage /\ UNCHANGED <<token, user>>
  /\ UNCHANGED <<authReq, verifier, authCount, urlCode, exchanged>>
  /\ UNCHANGED <<uiVars, pipeVars, timer, copyTimers, runs>>

\* GET /me answers
MeSettled(ok) ==
  /\ authPc = "me"
  /\ authPc' = "none"
  /\ authLoading' = FALSE
  /\ IF ok THEN user' = <<"me">> /\ UNCHANGED <<token, caught>>
           ELSE token' = Null /\ caught' = MeFailedMessage /\ UNCHANGED user
  /\ UNCHANGED <<authReq, verifier, authCount, urlCode, exchanged>>
  /\ UNCHANGED <<uiVars, pipeVars, timer, copyTimers, runs>>


\* ---------------------------------------------------------- handleCreate
\* the catch block, were setPhase("preview") missing
CreateCatch_KeepsPhase(r) ==
  /\ error' = ApiErrorMessage
  /\ phase' = phase
  /\ runs' = [runs EXCEPT ![r] = IdleRun]

\* the catch block of handleCreate
CreateCatch(r) ==
  /\ error' = ApiErrorMessage
  /\ phase' = "preview"
  /\ runs' = [runs EXCEPT ![r] = IdleRun]

\* handleCreate, were setPhase("creating") missing
handleCreate_KeepsPhase ==
  /\ phase = "preview"
  /\ token # Null
  /\ Len(songs) > 0
  /\ InFlight # RunIds
  /\ IF user = Null
     THEN UNCHANGED <<phase, error, results, currentTrack, progress, runs>>
     ELSE /\ phase' = phase /\ error' = "" /\ results' = <<>>
          /\ currentTrack' = TrackLabel(songs[1])
          /\ progress' = SearchProgress(0, Len(songs))
          /\ runs' = [runs EXCEPT ![FreeSlot] =
                        [IdleRun EXCEPT !.kind = "real", !.pc = "search", !.i = 0,
                                        !.songs = songs, !.token = token, !.user = user,
                                        !.playlistTitle = playlistTitle]]
  /\ UNCHANGED <<rawText, playlistTitle, songs, editingIndex, pasteSuccess, copied>>
  /\ UNCHANGED <<credVars, createdPlaylistUrl, timer, copyTimers, authVars>>

\* handleCreate, were the user half of its guard missing (if (!token) return)
handleCreate_NoUserCheck ==
  /\ phase = "preview"
  /\ token # Null
  /\ Len(songs) > 0
  /\ InFlight # RunIds
  /\ phase' = "creating" /\ error' = "" /\ results' = <<>>
  /\ currentTrack' = TrackLabel(songs[1])
  /\ progress' = SearchProgress(0, Len(songs))
  /\ runs' = [runs EXCEPT ![FreeSlot] =
                [IdleRun EXCEPT !.kind = "real", !.pc = "search", !.i = 0,
                                !.songs = songs, !.token = token, !.user = user,
                                !.playlistTitle = playlistTitle]]
  /\ UNCHANGED <<rawText, playlistTitle, songs, editingIndex, pasteSuccess, copied>>
  /\ UNCHANGED <<credVars, createdPlaylistUrl, timer, copyTimers, authVars>>

\* the create button with a token: handleCreate up to its first await
handleCreate ==
  /\ phase = "preview"
  /\ token # Null
  /\ Len(songs) > 0
  /\ InFlight # RunIds
  /\ IF user = Null
     THEN UNCHANGED <<phase, error, results, currentTrack, progress, runs>>
     ELSE /\ phase' = "creating" /\ error' = "" /\ results' = <<>>
          /\ currentTrack' = TrackLabel(songs[1])
          /\ progress' = SearchProgress(0, Len(songs))
          /\ runs' = [runs EXCEPT ![FreeSlot] =
                        [IdleRun EXCEPT !.kind = "real", !.pc = "search", !.i = 0,
                                        !.songs = songs, !.token = token, !.user = user,
                                        !.playlistTitle = playlistTitle]]
  /\ UNCHANGED <<rawText, playlistTitle, songs, editingIndex, pasteSuccess, copied>>
  /\ UNCHANGED <<credVars, createdPlaylistUrl, timer, copyTimers, authVars>>

\* SearchSettled, were the newest result put first (unshift instead of push)
SearchSettled_Unshift(r, outcome) ==
  /\ runs[r].pc = "search"
  /\ LET searchResults ==
           <<SearchResult(runs[r].songs[runs[r].i + 1], outcome)>> \o runs[r].searchResults
     IN  /\ runs' = [runs EXCEPT ![r].searchResults = searchResults, ![r].pc = "delay",
                               ![r].settled = Append(runs[r].settled, outcome)]
         /\ results' = searchResults
  /\ UNCHANGED <<progress, currentTrack, createdPlaylistUrl, error>>
  /\ UNCHANGED <<uiVars, credVars, timer, copyTimers, authVars>>

\* SearchSettled, were the inner try/catch missing: a rejected search reaches the
\* outer catch
SearchSettled_ThrowAborts(r, outcome) ==
  /\ runs[r].pc = "search"
  /\ IF outcome = "throw"
     THEN /\ error' = ApiErrorMessage
          /\ phase' = "preview"
          /\ runs' = [runs EXCEPT ![r] = IdleRun]
          /\ UNCHANGED results
     ELSE LET searchResults ==
                Append(runs[r].searchResults, SearchResult(runs[r].songs[runs[r].i + 1], outcome))
          IN  /\ runs' = [runs EXCEPT ![r].searchResults = searchResults, ![r].pc = "delay",
                                    ![r].settled = Append(runs[r].settled, outcome)]
              /\ results' = searchResults
              /\ UNCHANGED <<phase, error>>
  /\ UNCHANGED <<progress, currentTrack, createdPlaylistUrl>>
  /\ UNCHANGED <<rawText, playlistTitle, songs, editingIndex, pasteSuccess, copied>>
  /\ UNCHANGED <<credVars, timer, copyTimers, authVars>>

\* searchTrack for song i settles: the result is pushed and shown, the 200 ms
\* delay starts
SearchSettled(r, outcome) ==
  /\ runs[r].pc = "search"
  /\ LET searchResults ==
           Append(runs[r].searchResults, SearchResult(runs[r].songs[runs[r].i + 1], outcome))
     IN  /\ runs' = [runs EXCEPT ![r].searchResults = searchResults, ![r].pc = "delay",
                               ![r].settled = Append(runs[r].settled, outcome)]
         /\ results' = searchResults
  /\ UNCHANGED <<progress, currentTrack, createdPlaylistUrl, error>>
  /\ UNCHANGED <<uiVars, credVars, timer, copyTimers, authVars>>

\* SearchDelayFired, did the loop end after its first iteration
SearchDelayFired_StopsEarly(r) ==
  /\ runs[r].pc = "delay"
  /\ LET trackUris == FoundUris(runs[r].searchResults)
     IN  /\ currentTrack' = CreatingMessage
         /\ progress' = Percent(90)
         /\ IF Len(trackUris) = 0
            THEN /\ error' = NoTracksMessage
                 /\ phase' = "preview"
                 /\ runs' = [runs EXCEPT ![r] = IdleRun]
            ELSE /\ runs' = [runs EXCEPT ![r].trackUris = trackUris, ![r].pc = "create"]
                 /\ UNCHANGED <<phase, error>>
  /\ UNCHANGED <<rawText, playlistTitle, songs, editingIndex, pasteSuccess, copied>>
  /\ UNCHANGED <<credVars, results, createdPlaylistUrl, timer, copyTimers, authVars>>

\* SearchDelayFired, were the trackUris.length === 0 check missing
SearchDelayFired_NoEmptyCheck(r) ==
  /\ runs[r].pc = "delay"
  /\ LET n == Len(runs[r].songs)
         i == runs[r].i + 1
         trackUris == FoundUris(runs[r].searchResults)
     IN  IF i < n
         THEN /\ currentTrack' = TrackLabel(runs[r].songs[i + 1])
              /\ progress' = SearchProgress(i, n)
              /\ runs' = [runs EXCEPT ![r].i = i, ![r].pc = "search"]
         ELSE /\ currentTrack' = CreatingMessage
              /\ progress' = Percent(90)
              /\ runs' = [runs EXCEPT ![r].trackUris = trackUris, ![r].pc = "create"]
  /\ UNCHANGED <<phase, error>>
  /\ UNCHANGED <<rawText, playlistTitle, songs, editingIndex, pasteSuccess, copied>>
  /\ UNCHANGED <<credVars, results, createdPlaylistUrl, timer, copyTimers, authVars>>

\* the 200 ms delay ends: the next search is issued, or the loop is over and the
\* playlist is created unless no track was found
SearchDelayFired(r) ==
  /\ runs[r].pc = "delay"
  /\ LET n == Len(runs[r].songs)
         i == runs[r].i + 1
         trackUris == FoundUris(runs[r].searchResults)
     IN  IF i < n
         THEN /\ currentTrack' = TrackLabel(runs[r].songs[i + 1])
              /\ progress' = SearchProgress(i, n)
              /\ runs' = [runs EXCEPT ![r].i = i, ![r].pc = "search"]
              /\ UNCHANGED <<phase, error>>
         ELSE /\ currentTrack' = CreatingMessage
              /\ progress' = Percent(90)
              /\ IF Len(trackUris) = 0
                 THEN /\ error' = NoTracksMessage
                      /\ phase' = "preview"
                      /\ runs' = [runs EXCEPT ![r] = IdleRun]
                 ELSE /\ runs' = [runs EXCEPT ![r].trackUris = trackUris, ![r].pc = "create"]
                      /\ UNCHANGED <<phase, error>>
  /\ UNCHANGED <<rawText, playlistTitle, songs, editingIndex, pasteSuccess, copied>>
  /\ UNCHANGED <<credVars, results, createdPlaylistUrl, timer, copyTimers, authVars>>

\* POST /users/{id}/playlists settles
CreateSettled(r, ok) ==
  /\ runs[r].pc = "create"
  /\ IF ok
     THEN /\ currentTrack' = AddingMessage
          /\ progress' = Percent(95)
          /\ runs' = [runs EXCEPT ![r].playlist = << [url |-> PlaylistUrl] >>, ![r].pc = "add"]
          /\ UNCHANGED <<phase, error>>
     ELSE /\ CreateCatch(r)
          /\ UNCHANGED <<currentTrack, progress>>
  /\ UNCHANGED <<rawText, playlistTitle, songs, editingIndex, pasteSuccess, copied>>
  /\ UNCHANGED <<credVars, results, createdPlaylistUrl, timer, copyTimers, authVars>>

\* POST /playlists/{id}/tracks settles
AddSettled(r, ok) ==
  /\ runs[r].pc = "add"
  /\ IF ok
     THEN /\ createdPlaylistUrl' = runs[r].playlist[1].url
          /\ progress' = Percent(100)
          /\ phase' = "done"
          /\ runs' = [runs EXCEPT ![r] = IdleRun]
          /\ UNCHANGED error
     ELSE /\ CreateCatch(r)
          /\ UNCHANGED <<createdPlaylistUrl, progress>>
  /\ UNCHANGED <<rawText, playlistTitle, songs, editingIndex, pasteSuccess, copied>>
  /\ UNCHANGED <<credVars, currentTrack, results, timer, copyTimers, authVars>>

\* ------------------------------------------------------ handleDemoCreate
\* DemoIteration, were only the newest result shown (setResults([item]))
DemoIteration_LastOnly(r, run, i) ==
  LET demoResults == Append(run.searchResults, DemoResult(run.songs[i + 1]))
  IN  /\ currentTrack' = TrackLabel(run.songs[i + 1])
      /\ progress' = DemoProgress(i, Len(run.songs))
      /\ results' = <<DemoResult(run.songs[i + 1])>>
      /\ runs' = [runs EXCEPT ![r] = [run EXCEPT !.i = i, !.searchResults = demoResults,
                                                 !.pc = "demoDelay"]]

\* one iteration of the demo loop up to its 350 ms delay, for the 0-based index i
DemoIteration(r, run, i) ==
  LET demoResults == Append(run.searchResults, DemoResult(run.songs[i + 1]))
  IN  /\ currentTrack' = TrackLabel(run.songs[i + 1])
      /\ progress' = DemoProgress(i, Len(run.songs))
      /\ results' = demoResults
      /\ runs' = [runs EXCEPT ![r] = [run EXCEPT !.i = i, !.searchResults = demoResults,
                                                 !.pc = "demoDelay"]]

\* handleDemoCreate, were the create button not disabled for an empty list:
\* with no song the loop is skipped and the 600 ms delay starts at once
handleDemoCreate_NotDisabled ==
  /\ phase = "preview"
  /\ token = Null
  /\ InFlight # RunIds
  /\ phase' = "creating"
  /\ IF Len(songs) > 0
     THEN DemoIteration(FreeSlot, [IdleRun EXCEPT !.kind = "demo", !.songs = songs], 0)
     ELSE /\ currentTrack' = DemoCreatingMessage
          /\ progress' = Percent(95)
          /\ results' = <<>>
          /\ runs' = [runs EXCEPT ![FreeSlot] =
                        [IdleRun EXCEPT !.kind = "demo", !.pc = "demoFinal"]]
  /\ UNCHANGED <<rawText, playlistTitle, songs, editingIndex, pasteSuccess, copied>>
  /\ UNCHANGED <<credVars, createdPlaylistUrl, error, timer, copyTimers, authVars>>

\* the create button without a token: handleDemoCreate up to its first await
handleDemoCreate ==
  /\ phase = "preview"
  /\ token = Null
  /\ Len(songs) > 0
  /\ InFlight # RunIds
  /\ phase' = "creating"
  /\ DemoIteration(FreeSlot, [IdleRun EXCEPT !.kind = "demo", !.songs = songs], 0)
  /\ UNCHANGED <<rawText, playlistTitle, songs, editingIndex, pasteSuccess, copied>>
  /\ UNCHANGED <<credVars, createdPlaylistUrl, error, timer, copyTimers, authVars>>

\* a 350 ms delay ends: the next iteration, or the loop is over and the 600 ms
\* delay starts
DemoDelayFired(r) ==
  /\ runs[r].pc = "demoDelay"
  /\ IF runs[r].i + 1 < Len(runs[r].songs)
     THEN DemoIteration(r, runs[r], runs[r].i + 1)
     ELSE /\ currentTrack' = DemoCreatingMessage
          /\ progress' = Percent(95)
          /\ runs' = [runs EXCEPT ![r].pc = "demoFinal"]
          /\ UNCHANGED results
  /\ UNCHANGED <<uiVars, credVars, createdPlaylistUrl, error, timer, copyTimers, authVars>>

\* DemoFinalFired, were setPhase("done") missing
DemoFinalFired_KeepsPhase(r) ==
  /\ runs[r].pc = "demoFinal"
  /\ progress' = Percent(100)
  /\ runs' = [runs EXCEPT ![r] = IdleRun]
  /\ UNCHANGED <<uiVars, credVars, currentTrack, results, createdPlaylistUrl, error>>
  /\ UNCHANGED <<timer, copyTimers, authVars>>

\* the 600 ms delay ends
DemoFinalFired(r) ==
  /\ runs[r].pc = "demoFinal"
  /\ progress' = Percent(100)
  /\ phase' = "done"
  /\ runs' = [runs EXCEPT ![r] = IdleRun]
  /\ UNCHANGED <<rawText, playlistTitle, songs, editingIndex, pasteSuccess, copied>>
  /\ UNCHANGED <<credVars, currentTrack, results, createdPlaylistUrl, error>>
  /\ UNCHANGED <<timer, copyTimers, authVars>>

\* ------------------------------------------------------------ specification
Next ==
  \/ \E t \in Texts : SetRawText(t)
  \/ ManualParse
  \/ TimerFired
  \/ \E e \in {Null} \cup {<<i>> : i \in 1..Len(songs)} : SetEditingIndex(e)
  \/ \E i \in 1..Len(songs), field \in {"title", "artist"}, value \in EditValues :
       handleSongEdit(i, field, value)
  \/ \E i \in 1..Len(songs) : removeSong(i)
  \/ handleReset
  \/ handleCopyList
  \/ CopyTimerFired
  \/ \E granted \in BOOLEAN : handleLogin(granted)
  \/ \E code \in {Null} \cup {<<c>> : c \in 0..MaxAuth} : PageLoad(code)
  \/ Reload
  \/ handleLogout
  \/ \E ok \in BOOLEAN : ExchangeSettled(ok)
  \/ \E ok \in BOOLEAN : MeSettled(ok)
  \/ handleCreate
  \/ \E r \in RunIds, outcome \in SearchOutcomes : SearchSettled(r, outcome)
  \/ \E r \in RunIds : SearchDelayFired(r)
  \/ \E r \in RunIds, ok \in BOOLEAN : CreateSettled(r, ok)
  \/ \E r \in RunIds, ok \in BOOLEAN : AddSettled(r, ok)
  \/ handleDemoCreate
  \/ \E r \in RunIds : DemoDelayFired(r)
  \/ \E r \in RunIds : DemoFinalFired(r)

Spec == Init /\ [][Next]_vars


\* ------------------------------------------ specification of long real runs
\* a text of a title line and n song lines "A"
RECURSIVE SongLines(_)
SongLines(n) == IF n = 0 THEN <<>> ELSE <<"NL", "A">> \o SongLines(n - 1)

LongText(n) == <<"T">> \o SongLines(n)

\* the logged-in session in preview after LongText(n) was pasted and the
\* auto-advance fired, for each n up to MaxProgressSongs
InitProgress ==
  \E n \in 1..MaxProgressSongs :
    /\ phase = "preview" /\ rawText = LongText(n)
    /\ playlistTitle = parsePlaylistText(LongText(n))[1].title
    /\ songs = parsePlaylistText(LongText(n))[1].songs
    /\ editingIndex = Null /\ pasteSuccess = TRUE /\ copied = FALSE
    /\ token = <<1>> /\ user = <<"me">> /\ authLoading = FALSE
    /\ progress = Percent(0) /\ currentTrack = <<>> /\ results = <<>>
    /\ createdPlaylistUrl = "" /\ error = ""
    /\ timer = Null /\ copyTimers = 0
    /\ runs = [r \in RunIds |-> IdleRun]
    /\ authPc = "none" /\ authReq = Null /\ verifier = Null /\ authCount = 1
    /\ urlCode = Null /\ exchanged = {1} /\ caught = ""

\* the real pipeline alone, every search finding its track (the progress values
\* do not depend on what the searches find)
NextProgress ==
  \/ handleCreate
  \/ \E r \in RunIds : SearchSettled(r, "hit")
  \/ \E r \in RunIds : SearchDelayFired(r)
  \/ \E r \in RunIds, ok \in BOOLEAN : CreateSettled(r, ok)
  \/ \E r \in RunIds, ok \in BOOLEAN : AddSettled(r, ok)

SpecProgress == InitProgress /\ [][NextProgress]_vars

\* ------------------------------------------------- specification with fairness
\* an event of the run in slot r: one of its awaited calls or delays ends
RunEvent(r) ==
  \/ \E outcome \in SearchOutcomes : SearchSettled(r, outcome)
  \/ SearchDelayFired(r)
  \/ \E ok \in BOOLEAN : CreateSettled(r, ok) \/ AddSettled(r, ok)
  \/ DemoDelayFired(r)
  \/ DemoFinalFired(r)

\* every call a run has issued settles, with success or failure, and every
\* delay it waits for ends
RunFairness == \A r \in RunIds : WF_vars(RunEvent(r))

SpecLive == Init /\ [][Next]_vars /\ RunFairness

\* ------------------------------------------------------ parser specification
\* the song lines pasted: an optional numbering, then one to three names joined
\* by separators
LineMarkers == { <<>>, <<"1", ".", " ">>, <<"2", ")">> }

LineContents ==
  { <<"A">> }
    \cup { <<"A">> \o separators[j] \o <<"B">> : j \in 1..Len(separators) }
    \cup { <<"A">> \o separators[j] \o <<"B">> \o separators[k] \o <<"C">> :
             j \in 1..Len(separators), k \in 1..Len(separators) }

TwoLineContents == { <<"A">>, <<"A", " ", "-", " ", "B">>, <<"A", " ", "/", " ", "B">> }

\* texts whose last song line is a numbering with nothing after it
MarkerOnlyTexts ==
  { <<"T", "NL", "3", ".">>,
    <<"T", "NL", "1", ".", " ", "A", " ", "/", " ", "B", "NL", "1", "2", ")">> }

\* texts with fewer than two lines that are not blank
ShortTexts ==
  { <<" ">>,
    <<" ", "NL", "TAB">>,
    <<"T">>,
    <<" ", "T", " ", "NL", "NL", " ">> }

\* texts with white space around the title line or a blank line before the song
PaddedTexts ==
  { <<" ", "T", "TAB", "NL", "A">>,
    <<"T", "NL", " ", "NL", "A">> }

\* texts of a title line and one or two song lines
ParseTexts ==
  { <<"T", "NL">> \o m \o c : m \in LineMarkers, c \in LineContents }
    \cup { <<"T", "NL">> \o c \o <<"NL">> \o d : c \in TwoLineContents, d \in TwoLineContents }
    \cup MarkerOnlyTexts \cup ShortTexts \cup PaddedTexts

\* a fresh session in which the texts are pasted, one after another, until one
\* of them is parsed
NextParse ==
  \/ \E t \in ParseTexts : SetRawText(t)
  \/ TimerFired
  \/ ManualParse

SpecParse == Init /\ [][NextParse]_vars

\* ------------------------------------------------------------------ claims
\* a step that loads the page: the App of the step's first state is discarded
\* and a new one starts from the initial state
PageLoads ==
  \/ \E granted \in BOOLEAN : handleLogin(granted)
  \/ \E code \in {Null} \cup {<<c>> : c \in 0..MaxAuth} : PageLoad(code)
  \/ Reload

RealRuns == {r \in RunIds : runs[r].kind = "real"}

\* the result handleCreate records for a song whose search settled as `o`
Recorded(song, o) ==
  [song |-> song, spotifyTrack |-> IF o = "hit" THEN <<CatalogTrack(song)>> ELSE Null,
   found |-> (o = "hit")]

AllowedPhaseChanges ==
  { <<"paste", "preview">>, <<"preview", "creating">>, <<"creating", "preview">>,
    <<"creating", "done">>, <<"preview", "paste">>, <<"done", "paste">> }

\* C1: within one page session (the phase of a newly loaded page starts at
\* paste), every step that changes phase makes one of the six changes
\* paste->preview, preview->creating, creating->preview, creating->done,
\* preview->paste, done->paste.
C1_PhaseChanges ==
  [][phase' # phase => (PageLoads \/ <<phase, phase'>> \in AllowedPhaseChanges)]_vars

\* C1 witness: without any page load the session went paste -> preview ->
\* creating -> done -> paste (the copy timer was started in done)
C1_Witness == phase = "paste" /\ authCount = 0 /\ copyTimers > 0

\* C2: when the search for song k throws, results[k] is recorded with found =
\* false and no track, the earlier results stay, the run goes on to its delay
\* and the next song, and every recorded result is the one its own song and its
\* own search outcome determine, whatever the other searches did.
C2_SearchThrow ==
  /\ [](\A r \in RealRuns :
          /\ Len(runs[r].searchResults) = Len(runs[r].settled)
          /\ \A j \in 1..Len(runs[r].settled) :
               runs[r].searchResults[j] = Recorded(runs[r].songs[j], runs[r].settled[j])
          /\ runs[r].pc = "search" => Len(runs[r].settled) = runs[r].i)
  /\ [][\A r \in RunIds : SearchSettled(r, "throw") =>
          LET k == runs[r].i + 1
          IN  /\ Len(results') = k
              /\ results'[k] = [song |-> runs[r].songs[k], spotifyTrack |-> Null, found |-> FALSE]
              /\ \A j \in 1..(k - 1) : results'[j] = results[j]
              /\ runs'[r].pc = "delay"
              /\ phase' = phase /\ error' = error]_vars

\* C2 witness: the first search threw and the run went on to find the second song
C2_Witness ==
  \E r \in RealRuns :
    /\ Len(runs[r].settled) = 2 /\ runs[r].settled[1] = "throw"
    /\ results = runs[r].searchResults
    /\ ~results[1].found /\ results[2].found

\* C3: a real run none of whose searches yields a track never has a
\* create-playlist or add-tracks call pending, and the step that ends its last
\* delay ends the run with a non-empty error and phase preview.
C3_NoTracksFound ==
  /\ [](\A r \in RunIds : runs[r].pc \in {"create", "add"} =>
          \E j \in 1..Len(runs[r].settled) : runs[r].settled[j] = "hit")
  /\ [][\A r \in RunIds :
          ( /\ runs[r].pc = "delay"
            /\ Len(runs[r].settled) = Len(runs[r].songs)
            /\ \A j \in 1..Len(runs[r].settled) : runs[r].settled[j] # "hit"
            /\ runs'[r] # runs[r]
            /\ ~PageLoads )
          => ( /\ runs'[r] = IdleRun
               /\ phase' = "preview" /\ error' # ""
               /\ createdPlaylistUrl' = "" )]_vars

\* C3 witness: a run of two songs ended with the no-tracks error
C3_Witness ==
  phase = "preview" /\ error = NoTracksMessage /\ Len(results) = 2

\* C4: a step in which a run (real or demo) ends with phase done leaves as many
\* results as the run was started with songs.
C4_ResultCount ==
  [][\A r \in RunIds :
       (runs[r].pc # "idle" /\ runs'[r].pc = "idle" /\ phase' = "done")
       => Len(results') = Len(runs[r].songs)]_vars

\* C4 witness: a run of two songs completed
C4_Witness == phase = "done" /\ Len(results) = 2 /\ InFlight = {}

\* C5: when the create-playlist or the add-tracks call of a real run fails, the
\* run ends (no further call), error is non-empty, phase is preview, and songs
\* and playlistTitle are what the run was started with.
C5_RemoteFailure ==
  [][\A r \in RunIds : (CreateSettled(r, FALSE) \/ AddSettled(r, FALSE)) =>
       ( /\ runs'[r] = IdleRun
         /\ error' # "" /\ phase' = "preview"
         /\ songs' = runs[r].songs /\ playlistTitle' = runs[r].playlistTitle
         /\ createdPlaylistUrl' = "" )]_vars

\* C5 witness: a failed remote call returned the session to preview, songs kept
C5_Witness == phase = "preview" /\ error = ApiErrorMessage /\ songs # <<>> /\ InFlight = {}


\* C6 (as claimed): in a real run every progress value set after the first is
\* strictly greater than the one before it: the search values, then 90, then
\* 95, then 100.
C6_ProgressIncreases ==
  [][\A r \in RunIds :
       (SearchDelayFired(r) \/ CreateSettled(r, TRUE) \/ AddSettled(r, TRUE))
       => Less(progress, progress')]_vars

\* C7 (as claimed): while phase is creating no login button and no logout
\* button is on screen.
C7_NoAuthWhileCreating ==
  phase = "creating" => (~LoginVisible /\ ~LogoutVisible)

\* C8: at most one invocation of handleCreate / handleDemoCreate is in flight.
C8_OneRun == Cardinality(InFlight) <= 1

\* C8 witness: a real run waits for its add-tracks call after the user logged
\* out during the run
C8_Witness ==
  \E r \in RunIds : runs[r].pc = "add" /\ token = Null /\ phase = "creating"

\* C9: a run is in flight only while phase is creating; no step taken while a
\* run is in flight or phase is creating changes songs (a page load ends the
\* run); the edit and remove actions are taken only in phase preview.
C9_SongsFrozen ==
  /\ [](InFlight # {} => phase = "creating")
  /\ [][((InFlight # {} \/ phase = "creating") /\ ~PageLoads) => songs' = songs]_vars
  /\ [][( \/ \E i \in 1..Len(songs), f \in {"title", "artist"}, v \in EditValues :
               handleSongEdit(i, f, v)
          \/ \E i \in 1..Len(songs) : removeSong(i) )
        => (phase = "preview" /\ InFlight = {})]_vars

\* C9 witness: a run over an edited list is searching its second song while the
\* row editor is still open
C9_Witness ==
  \E r \in InFlight :
    /\ runs[r].pc = "search" /\ runs[r].i = 1
    /\ editingIndex # Null
    /\ runs[r].songs = songs /\ songs[1].title = <<"C">>

\* C10: createdPlaylistUrl is non-empty only in phase done, and a step sets it
\* only as the add-tracks call of a run whose create-playlist call succeeded
\* settles with success.
C10_PlaylistUrl ==
  /\ [](createdPlaylistUrl # "" => phase = "done")
  /\ [][(createdPlaylistUrl' # createdPlaylistUrl /\ createdPlaylistUrl' # "") =>
          \E r \in RunIds :
            /\ runs[r].kind = "real" /\ runs[r].pc = "add" /\ runs[r].playlist # Null
            /\ runs'[r] = IdleRun /\ phase' = "done"]_vars

\* C10 witness: a run created the playlist although one of its searches found
\* nothing
C10_Witness ==
  phase = "done" /\ createdPlaylistUrl # "" /\ \E j \in 1..Len(results) : ~results[j].found

DemoRuns == {r \in RunIds : runs[r].kind = "demo"}

\* C11: a run started without a token is a demo run: it never waits for a
\* remote call (its only waits are the two delays), it records every song so
\* far as found, in order, it leaves error as it was and createdPlaylistUrl
\* empty, and phase goes from preview to creating and from creating to done.
C11_DemoRun ==
  /\ [](\A r \in DemoRuns :
         /\ runs[r].pc \in {"demoDelay", "demoFinal"}
         /\ phase = "creating" /\ createdPlaylistUrl = ""
         /\ results = runs[r].searchResults
         /\ Len(results) = IF runs[r].pc = "demoFinal" THEN Len(runs[r].songs)
                                                       ELSE runs[r].i + 1
         /\ \A j \in 1..Len(results) :
              results[j].found /\ results[j].song = runs[r].songs[j])
  /\ [][handleDemoCreate =>
          ( /\ token = Null /\ phase = "preview" /\ phase' = "creating"
            /\ DemoRuns = {} /\ DemoRuns' # {} /\ RealRuns' = RealRuns
            /\ error' = error /\ createdPlaylistUrl' = "" )]_vars
  /\ [][\A r \in RunIds : (DemoDelayFired(r) \/ DemoFinalFired(r)) =>
          ( /\ error' = error /\ createdPlaylistUrl' = ""
            /\ \/ phase' = "creating" /\ r \in DemoRuns'
               \/ /\ phase' = "done" /\ runs'[r] = IdleRun
                  /\ Len(results') = Len(runs[r].songs)
                  /\ \A j \in 1..Len(results') : results'[j].found )]_vars

\* C11 witness: a demo run over two songs is done
C11_Witness ==
  /\ phase = "done" /\ token = Null /\ createdPlaylistUrl = "" /\ error = ""
  /\ Len(results) = 2 /\ results[1].found /\ results[2].found
  /\ results[1].spotifyTrack # Null /\ results[1].spotifyTrack[1].name = songs[1].title

\* C12: a step gives the session an access token only as the answer to an
\* exchange request whose verifier is the one in the session store, is the
\* most recent startAuth's, and is the one the request's code was issued for;
\* a pending request carries the stored verifier; an exchange whose code was
\* not issued for its verifier, and a callback with no verifier stored, end
\* with token = null and authLoading = false.
C12_TokenNeedsVerifier ==
  /\ [](authPc = "exchange" => (authReq # Null /\ verifier = <<authReq[1].verifier>>))
  /\ [][(token' # Null /\ token' # token) =>
          ( /\ authPc = "exchange"
            /\ verifier = <<authReq[1].verifier>>
            /\ authReq[1].verifier = authCount
            /\ authReq[1].code = authReq[1].verifier
            /\ token' = <<authReq[1].code>> )]_vars
  /\ [][((\E ok \in BOOLEAN : ExchangeSettled(ok)) /\ authReq[1].code # authReq[1].verifier)
          => (token' = Null /\ authLoading' = FALSE /\ authPc' = "none")]_vars
  /\ [][(PageLoads /\ verifier' = Null) =>
          (token' = Null /\ authLoading' = FALSE /\ authPc' = "none")]_vars

\* C12 witness: after two startAuth calls the session holds the token obtained
\* with the second verifier
C12_Witness ==
  token = <<2>> /\ authCount = 2 /\ exchanged = {2} /\ verifier = Null

\* C13: a page load with a code in the URL while no verifier is stored ends in
\* the missing-verifier error: no token request goes out, the session store
\* stays empty, and the session is not logged in and not loading; whenever
\* that error was caught, no request is pending.
C13_MissingVerifier ==
  /\ [][\A c \in 0..MaxAuth : (PageLoad(<<c>>) /\ verifier = Null) =>
          ( /\ caught' = NoVerifierMessage
            /\ authReq' = Null /\ authPc' = "none"
            /\ verifier' = verifier
            /\ token' = Null /\ authLoading' = FALSE )]_vars
  /\ [](caught = NoVerifierMessage => (authReq = Null /\ authPc = "none" /\ verifier = Null))

\* C13 witness: the page was opened with a code before any startAuth
C13_Witness ==
  caught = NoVerifierMessage /\ authCount = 0 /\ verifier = Null /\ token = Null

\* C14: a successful exchange uses the stored verifier, one that has not
\* yielded a token before, and removes it from the store; a verifier that has
\* yielded a token is never in the store again; and a page load with a code
\* after the most recent verifier has yielded its token, with no startAuth
\* since, ends in the missing-verifier error with no token.
C14_VerifierOnce ==
  /\ [][ExchangeSettled(TRUE) =>
          ( /\ verifier = <<authReq[1].verifier>>
            /\ authReq[1].verifier \notin exchanged
            /\ verifier' = Null )]_vars
  /\ [](\A v \in exchanged : verifier # <<v>>)
  /\ [][\A c \in 0..MaxAuth : (PageLoad(<<c>>) /\ authCount \in exchanged) =>
          (caught' = NoVerifierMessage /\ token' = Null /\ authPc' = "none")]_vars

\* C14 witness: the code of the one startAuth was presented again after its
\* verifier had yielded a token
C14_Witness ==
  caught = NoVerifierMessage /\ authCount = 1 /\ exchanged = {1} /\ token = Null

\* the lines of a text that hold a character other than white space
NonBlankLines(text) ==
  SelectSeq(SplitLines(text), LAMBDA l : \E i \in 1..Len(l) : ~IsSpace(l[i]))

\* the song lines of a pasted text of ParseTexts, without their numbering
PastedContents(text) ==
  LET lines == Tail(NonBlankLines(text))
  IN  [k \in 1..Len(lines) |->
         IF NumberedMatch(lines[k]) # Null THEN NumberedMatch(lines[k])[1] ELSE lines[k]]

\* C15: a parsed line is split at the first occurrence of the separator that
\* comes first in the order " / ", " - ", em dash, en dash among those the
\* line contains, wherever the others occur: the line is title, that
\* separator, artist; a line with no separator is a title with an empty
\* artist. "A / B - C" gives title "A" and artist "B - C"; "A - B / C" gives
\* title "A - B" and artist "C".
C15_SeparatorOrder ==
  phase = "preview" =>
    LET contents == PastedContents(rawText)
    IN  /\ Len(songs) = Len(contents)
        /\ \A k \in 1..Len(songs) :
             LET c == contents[k]
                 present == {j \in 1..Len(separators) : IndexOf(c, separators[j]) > 0}
             IN  IF present = {}
                 THEN songs[k] = [title |-> c, artist |-> <<>>]
                 ELSE \E j \in present :
                        /\ \A h \in present : j <= h
                        /\ c = songs[k].title \o separators[j] \o songs[k].artist
                        /\ IndexOf(c, separators[j]) = Len(songs[k].title)
        /\ rawText = <<"T", "NL", "A", " ", "/", " ", "B", " ", "-", " ", "C">> =>
             songs = << [title |-> <<"A">>, artist |-> <<"B", " ", "-", " ", "C">>] >>
        /\ rawText = <<"T", "NL", "A", " ", "-", " ", "B", " ", "/", " ", "C">> =>
             songs = << [title |-> <<"A", " ", "-", " ", "B">>, artist |-> <<"C">>] >>

\* C15 witness: the numbered line "A - B / C" was parsed into the title
\* "A - B" and the artist "C"
C15_Witness ==
  /\ phase = "preview"
  /\ rawText = <<"T", "NL", "1", ".", " ", "A", " ", "-", " ", "B", " ", "/", " ", "C">>
  /\ songs = << [title |-> <<"A", " ", "-", " ", "B">>, artist |-> <<"C">>] >>

\* C16: the text handleCopyList builds from a parsed playlist parses back into
\* the same title and the same songs, in order.
C16_RoundTrip ==
  phase = "preview" =>
    parsePlaylistText(CopyListText(playlistTitle, songs))
      = << [title |-> playlistTitle, songs |-> songs] >>

\* the round trip of C16 for the parsed playlists with no empty artist
C16_RoundTripWithArtists ==
  (phase = "preview" /\ \A k \in 1..Len(songs) : songs[k].artist # <<>>) =>
    parsePlaylistText(CopyListText(playlistTitle, songs))
      = << [title |-> playlistTitle, songs |-> songs] >>

\* C17: in every state where an exchange request or the user lookup is
\* pending, or the callback has ended with a token or with an error, the URL
\* carries no code; so a reload starts no exchange.
C17_CodeOffUrl ==
  /\ []((authPc # "none" \/ authReq # Null \/ token # Null \/ caught # "") => urlCode = Null)
  /\ [][Reload => (authPc' = "none" /\ authReq' = Null /\ caught' = "" /\ token' = Null)]_vars

\* C17 witness: the exchange request for the code the page was loaded with is
\* pending and the URL shows no code
C17_Witness ==
  authPc = "exchange" /\ authReq # Null /\ authReq[1].code = 1 /\ authLoading /\ urlCode = Null

\* C18: the step in which the token exchange or the user lookup fails leaves
\* token = null, user = null and authLoading = false and does not change
\* error, phase, songs or results; and on a page whose callback has failed the
\* session stays not logged in and not loading.
C18_AuthFailure ==
  /\ [][(ExchangeSettled(FALSE) \/ MeSettled(FALSE)) =>
          ( /\ token' = Null /\ user' = Null /\ authLoading' = FALSE
            /\ caught' # ""
            /\ error' = error /\ phase' = phase /\ songs' = songs
            /\ results' = results )]_vars
  /\ [](caught # "" =>
         (token = Null /\ user = Null /\ authLoading = FALSE /\ authPc = "none"))

\* C18 witness: the user lookup failed while a demo run was showing results
C18_Witness ==
  /\ caught = MeFailedMessage /\ token = Null /\ user = Null /\ authLoading = FALSE
  /\ phase = "creating" /\ Len(results) > 0

\* C19: a step that takes phase from preview or done to paste within a session
\* leaves rawText and playlistTitle empty, songs and results empty, progress
\* 0, currentTrack, createdPlaylistUrl and error empty, editingIndex null,
\* pasteSuccess and copied false, and token and user as they were; the reset
\* action is such a step.
C19_Reset ==
  /\ [][(phase \in {"preview", "done"} /\ phase' = "paste" /\ ~PageLoads) =>
          ( /\ rawText' = <<>> /\ playlistTitle' = <<>>
            /\ songs' = <<>> /\ results' = <<>>
            /\ progress' = Percent(0) /\ currentTrack' = <<>>
            /\ createdPlaylistUrl' = "" /\ error' = ""
            /\ editingIndex' = Null /\ pasteSuccess' = FALSE /\ copied' = FALSE
            /\ token' = token /\ user' = user )]_vars
  /\ [][handleReset => (phase \in {"preview", "done"} /\ phase' = "paste")]_vars

\* C19 witness: a logged-in session is back in the paste phase after a reset
\* from done, where the list had been copied
C19_Witness ==
  /\ phase = "paste" /\ token # Null /\ user # Null /\ copyTimers > 0
  /\ rawText = <<>> /\ songs = <<>> /\ results = <<>> /\ createdPlaylistUrl = ""
  /\ copied = FALSE

\* C20: every event of a run happens while phase is creating; the step that
\* takes phase out of creating leaves no run behind that could deliver a
\* later event; and a step outside phase creating changes phase, progress,
\* currentTrack, results, error or createdPlaylistUrl only as a reset or a
\* page load, never as a run's event.
C20_NoLateEvents ==
  /\ [][\A r \in RunIds : RunEvent(r) => (phase = "creating" /\ InFlight = {r})]_vars
  /\ [][(phase = "creating" /\ phase' # "creating") => InFlight' = {}]_vars
  /\ [][(phase # "creating" /\ phase' # "creating"
          /\ <<progress, currentTrack, results, error, createdPlaylistUrl>>'
               # <<progress, currentTrack, results, error, createdPlaylistUrl>>)
        => (handleReset \/ PageLoads)]_vars

\* C20 witness: back in preview after a run that failed, with the results and
\* the progress it left and a row opened for editing since
C20_Witness ==
  /\ phase = "preview" /\ InFlight = {} /\ error = ApiErrorMessage
  /\ Len(results) > 0 /\ progress # Percent(0) /\ editingIndex # Null

\* a line without its leading marker: the digits, the "." or ")" and the
\* whitespace that follows
StripMarker(line) ==
  LET d == DigitRun(line)
  IN  IF d > 0 /\ Len(line) > d /\ line[d + 1] \in {".", ")"}
      THEN TrimStart(SubstringFrom(line, d + 1)) ELSE line

\* C21: the songs parsed from a text are, in order, those of its song lines
\* that are not empty once the leading marker is stripped, and each song's
\* title starts that stripped line; a line that is a marker alone gives no
\* song.
C21_MarkerStripped ==
  phase = "preview" =>
    LET kept == SelectSeq(Tail(NonBlankLines(rawText)), LAMBDA l : StripMarker(l) # <<>>)
    IN  /\ Len(songs) = Len(kept)
        /\ \A k \in 1..Len(songs) :
             SubSeq(StripMarker(kept[k]), 1, Len(songs[k].title)) = songs[k].title

\* the property of C21 for the texts in which something follows every marker
C21_MarkerStrippedBeforeContent ==
  (phase = "preview" /\ rawText \notin MarkerOnlyTexts) =>
    LET kept == SelectSeq(Tail(NonBlankLines(rawText)), LAMBDA l : StripMarker(l) # <<>>)
    IN  /\ Len(songs) = Len(kept)
        /\ \A k \in 1..Len(songs) :
             SubSeq(StripMarker(kept[k]), 1, Len(songs[k].title)) = songs[k].title

\* the first non-blank line of a text without the white space around it
FirstLineTrimmed(text) ==
  LET l == NonBlankLines(text)[1]
      first == CHOOSE i \in 1..Len(l) : ~IsSpace(l[i]) /\ \A j \in 1..(i - 1) : IsSpace(l[j])
      last == CHOOSE i \in 1..Len(l) : ~IsSpace(l[i]) /\ \A j \in (i + 1)..Len(l) : IsSpace(l[j])
  IN  SubSeq(l, first, last)

\* C22: for a raw text with fewer than two non-blank lines the parser returns
\* null, so pasteSuccess is false, no auto-advance is armed and the manual
\* parse changes nothing; for a raw text with two or more it returns a
\* playlist whose title is the first non-blank line trimmed, and that is the
\* playlistTitle in preview.
C22_ShortTextIsNull ==
  /\ [](IF Len(NonBlankLines(rawText)) < 2
        THEN /\ parsePlaylistText(rawText) = Null
             /\ pasteSuccess = FALSE /\ timer = Null /\ phase = "paste"
        ELSE /\ parsePlaylistText(rawText) # Null
             /\ parsePlaylistText(rawText)[1].title = FirstLineTrimmed(rawText)
             /\ phase = "preview" => playlistTitle = FirstLineTrimmed(rawText))
  /\ [][(ManualParse /\ Len(NonBlankLines(rawText)) < 2) =>
          UNCHANGED <<phase, playlistTitle, songs>>]_vars

\* C22 witness: a title line alone, with blank lines after it, is in the text
\* area and nothing was parsed
C22_Witness ==
  /\ rawText = <<" ", "T", " ", "NL", "NL", " ">>
  /\ pasteSuccess = FALSE /\ timer = Null /\ phase = "paste" /\ songs = <<>>

\* C23: the session store never holds a key other than code_verifier nor the
\* value of the access token; only startAuth and a successful exchange change
\* the store (logout, reset and the pipelines do not); and a page load starts
\* with no token, whatever the store holds.
C23_TokenNotStored ==
  /\ [](\A item \in sessionStorage :
         /\ item.key = "code_verifier"
         /\ token # Null => item.value # <<"token", token[1]>>)
  /\ [](Cardinality(sessionStorage) <= 1)
  /\ [][sessionStorage' # sessionStorage =>
          ((\E granted \in BOOLEAN : handleLogin(granted)) \/ ExchangeSettled(TRUE))]_vars
  /\ [][PageLoads => token' = Null]_vars

\* C23 witness: the second login of the session store's life is complete: the
\* token and the user are in memory and the store is empty
C23_Witness ==
  token # Null /\ user # Null /\ authCount = 2 /\ sessionStorage = {}

\* C24: a step that takes phase into creating starts from a non-empty song
\* list and starts a run over exactly that list; every run in flight has at
\* least one song; and in preview with an empty list neither create action is
\* enabled.
C24_NonEmptyRun ==
  /\ [][(phase # "creating" /\ phase' = "creating") =>
          ( /\ phase = "preview" /\ Len(songs) > 0
            /\ \E r \in RunIds : InFlight' = {r} /\ runs'[r].songs = songs )]_vars
  /\ [](\A r \in InFlight : Len(runs[r].songs) > 0)
  /\ []((phase = "preview" /\ songs = <<>>) =>
         (~ENABLED handleCreate /\ ~ENABLED handleDemoCreate))

\* C24 witness: every song was removed in preview, in a logged-in session
C24_Witness ==
  phase = "preview" /\ songs = <<>> /\ playlistTitle # <<>> /\ token # Null /\ user # Null

\* C25: while a real run waits for the search of song k+1, exactly the searches
\* of songs 1..k have settled and their results are recorded; a search that
\* settles appends the result of the next song of the list; and throughout a
\* run results is no longer than songs and results[j].song = songs[j].
C25_SequentialSearch ==
  /\ [](\A r \in RealRuns :
         /\ runs[r].pc = "search" => Len(runs[r].searchResults) = runs[r].i
         /\ runs[r].pc = "delay" => Len(runs[r].searchResults) = runs[r].i + 1
         /\ runs[r].pc \in {"create", "add"} =>
              Len(runs[r].searchResults) = Len(runs[r].songs)
         /\ Len(runs[r].settled) = Len(runs[r].searchResults)
         /\ results = runs[r].searchResults)
  /\ [](\A r \in InFlight :
         /\ Len(results) <= Len(songs)
         /\ \A j \in 1..Len(results) : results[j].song = songs[j])
  /\ [][\A r \in RunIds : (\E o \in SearchOutcomes : SearchSettled(r, o)) =>
          ( /\ Len(results') = Len(results) + 1
            /\ SubSeq(results', 1, Len(results)) = results
            /\ results'[Len(results')].song = songs[Len(results) + 1] )]_vars
  /\ [][\A r \in RunIds : (runs'[r].pc = "search" /\ runs[r].pc # "search") =>
          ( /\ runs[r].pc \in {"idle", "delay"}
            /\ Len(runs'[r].searchResults) = runs'[r].i
            /\ runs'[r].i = IF runs[r].pc = "idle" THEN 0 ELSE runs[r].i + 1 )]_vars

\* C25 witness: the search for the second of two different songs is pending and
\* the result of the first is shown
C25_Witness ==
  \E r \in RealRuns :
    /\ runs[r].pc = "search" /\ runs[r].i = 1
    /\ Len(results) = 1 /\ results[1].song = songs[1] /\ songs[1] # songs[2]

\* the URIs the catalog gave for the songs whose search settled with a track,
\* in the order of the song list
HitUris(songList, settled) ==
  LET hits == SelectSeq([j \in 1..Len(settled) |-> j], LAMBDA j : settled[j] = "hit")
  IN  [k \in 1..Len(hits) |-> CatalogTrack(songList[hits[k]]).uri]

\* C26: the create-playlist call of a real run is issued by the step that ends
\* the delay after the last search, when all N searches have settled; the
\* add-tracks call is issued only by the step in which create-playlist
\* succeeds, and when it settles the run is over, so it is issued once; the
\* URIs the run holds for it are those of the songs that were found, in the
\* order of the song list.
C26_CreateThenAdd ==
  /\ [](\A r \in RealRuns : runs[r].pc \in {"create", "add"} =>
         /\ Len(runs[r].settled) = Len(runs[r].songs)
         /\ runs[r].trackUris = HitUris(runs[r].songs, runs[r].settled)
         /\ runs[r].playlist # Null <=> runs[r].pc = "add")
  /\ [][\A r \in RunIds : (runs'[r].pc = "create" /\ runs[r].pc # "create") =>
          (SearchDelayFired(r) /\ runs[r].i + 1 = Len(runs[r].songs))]_vars
  /\ [][\A r \in RunIds : (runs'[r].pc = "add" /\ runs[r].pc # "add") =>
          (CreateSettled(r, TRUE) /\ runs'[r].trackUris = runs[r].trackUris)]_vars
  /\ [][\A r \in RunIds : (runs[r].pc = "add" /\ runs'[r] # runs[r]) =>
          runs'[r] = IdleRun]_vars

\* C26 witness: the add-tracks call is pending with the one URI of a run whose
\* first song was not found and whose second was
C26_Witness ==
  \E r \in RealRuns :
    /\ runs[r].pc = "add" /\ runs[r].settled = <<"miss", "hit">>
    /\ runs[r].trackUris = <<CatalogTrack(songs[2]).uri>>

\* C27: a step from paste to preview is taken only when the raw text on screen
\* parses, and it leaves playlistTitle and songs equal to that parse; a pending
\* auto-advance is always the one armed for the raw text on screen, because a
\* change of the raw text replaces or cancels it; and songs changes in paste
\* only in the step to preview.
C27_AutoAdvance ==
  /\ [][(phase = "paste" /\ phase' = "preview") =>
          ( /\ parsePlaylistText(rawText) # Null
            /\ rawText' = rawText
            /\ playlistTitle' = parsePlaylistText(rawText)[1].title
            /\ songs' = parsePlaylistText(rawText)[1].songs )]_vars
  /\ [](timer # Null => (timer = <<rawText>> /\ phase = "paste" /\ pasteSuccess))
  /\ [][(rawText' # rawText /\ timer # Null) => timer' # timer]_vars
  /\ [][(phase = "paste" /\ songs' # songs) => phase' = "preview"]_vars

\* C27 witness: the second text pasted is the one that was parsed
C27_Witness ==
  /\ phase = "preview" /\ timer = Null /\ pasteSuccess
  /\ rawText = <<"T", "NL", "A", " ", "-", " ", "B", "NL", "2", ")", "B">>
  /\ songs = parsePlaylistText(rawText)[1].songs /\ Len(songs) = 2

\* C28: if every call and delay of a run ends, phase creating always leads to
\* another phase; a step out of creating goes to preview or done unless it is
\* a page load; and in preview and in done the reset action is enabled.
C28_LeavesCreating ==
  /\ (phase = "creating") ~> (phase # "creating")
  /\ [][(phase = "creating" /\ phase' # "creating") =>
          (phase' \in {"preview", "done"} \/ PageLoads)]_vars
  /\ [](phase \in {"preview", "done"} => ENABLED handleReset)

\* C28 witness: a run over one song is over, back in preview with the
\* no-tracks error
C28_Witness ==
  /\ phase = "preview" /\ InFlight = {} /\ error = NoTracksMessage
  /\ Len(songs) = 1 /\ Len(results) = 1

\* C29: in every state user is non-null only if token is non-null; the steps
\* that clear token (logout, a failed lookup or exchange, a page load) leave
\* user null.
C29_UserNeedsToken ==
  /\ [](user # Null => token # Null)
  /\ [][(token # Null /\ token' = Null) => user' = Null]_vars

\* C29 witness: a session that was logged in has logged out in the done phase
\* of its run
C29_Witness ==
  /\ token = Null /\ user = Null /\ phase = "done" /\ createdPlaylistUrl # ""
  /\ caught = "" /\ authPc = "none"

\* C30: in preview with a token and no user the create action changes nothing
\* (phase, runs, error, results, progress and all other state stay), the demo
\* action is not enabled, and no real run ever holds a null user or token.
C30_CreateWithoutUser ==
  /\ [][(handleCreate /\ user = Null) => UNCHANGED vars]_vars
  /\ []((phase = "preview" /\ token # Null /\ user = Null) =>
         (~ENABLED handleDemoCreate /\ InFlight = {}))
  /\ [](\A r \in RealRuns : runs[r].user # Null /\ runs[r].token # Null)

\* C30 witness: a parsed list is on screen with the create button active while
\* the token is held and the user lookup is pending
C30_Witness ==
  /\ phase = "preview" /\ Len(songs) > 0 /\ InFlight = {}
  /\ token # Null /\ user = Null /\ authPc = "me" /\ ENABLED handleCreate

\* C31: whenever phase is done, token is null exactly when createdPlaylistUrl
\* is empty (the run is shown as a demo exactly when the demo pipeline
\* produced it).
C31_DemoIffNoUrl ==
  phase = "done" => (token = Null <=> createdPlaylistUrl = "")


====
